---- MODULE Spec2Model ----
(***************************************************************************)
(* State-machine model of streamlit_app.py (RoboLab inventory).            *)
(*                                                                         *)
(* The tables of robolab.db are the variables inventory, transactions,     *)
(* sessions, users and roles.  Five specifications exercise the handlers:  *)
(*   SpecLedger   the Inventory / Stock Operations forms and the two       *)
(*                low-stock queries                                        *)
(*   SpecSession  create_session / validate_session / logout delete        *)
(*   SpecMain     main() over time: session restore, login, sidebar,       *)
(*                routing, logout                                          *)
(*   SpecGate     main() with the role table being edited                  *)
(*   SpecUsers    login and the user-edit and profile forms                *)
(* Time is counted in minutes.                                             *)
(***************************************************************************)
EXTENDS Integers, Sequences, FiniteSets, TLC

VARIABLES
    inventory,      \* table inventory: sequence of rows, row k has id k
    transactions,   \* table transactions: sequence of rows
    sessions,       \* table sessions: set of rows [token, user_id, expires_at]
    issued,         \* tokens uuid4 has already produced
    now,            \* the wall clock, datetime.now()
    users,          \* table users: set of rows, emp_id unique
    roles,          \* table roles: set of rows [name, permissions]
    browser,        \* per browser: st.session_state and st.query_params
    script,         \* per session on Stock Operations: where its script run
                    \* stands and the data frame df it read
    net,            \* history: item name -> amounts stocked in minus amounts
                    \* stocked out by the sessions of script
    ev              \* what the last handled request did (inputs and outcome)

vars == <<inventory, transactions, sessions, issued, now, users, roles, browser,
          script, net, ev>>

NULL == "NULL"

\* ------------------------------------------------------------------ bounds
MaxItems == 2        \* rows of inventory
MaxDebt == 2         \* quantities are followed down to -MaxDebt
MaxQuantity == 6     \* and up to MaxQuantity
MaxBelowZero == 1    \* typed quantities range over -MaxBelowZero..MaxTyped
MaxTyped == 3
MaxTokens == 2       \* tokens uuid4 hands out
MaxTime == 8         \* the clock is followed up to MaxTime minutes
MaxBrowsers == 1     \* browser sessions
MaxDrift == 1        \* minutes that may pass between two statements of a handler
InitialQuantity == 3 \* the item's quantity when the concurrent sessions start

\* ------------------------------------------------------- program constants
DefaultMinStock == 5
StockQtyMin == 1
SessionMinutes == 5

ItemNames == {"servo", "led"}

\* ------------------------------------------------------------------ ledger

\* variant: the widget given no minimum (value=1 in place of min_value=1)
NumberInputNoMin(min_value, v) == TRUE

\* st.number_input(label, min_value, ...): a value below min_value never
\* becomes the widget's value, so the form cannot be submitted with it.
NumberInputAccepts(min_value, v) == v >= min_value

\* INSERT INTO inventory (name, category, quantity): id is the next rowid,
\* min_stock takes the column default.
InsertItem(inv, name, qty) ==
    Append(inv, [id |-> Len(inv) + 1, name |-> name, quantity |-> qty,
                 min_stock |-> DefaultMinStock])

\* UPDATE inventory SET quantity = quantity + delta WHERE name = name
UpdateQuantity(inv, name, delta) ==
    [k \in DOMAIN inv |->
        IF inv[k].name = name
        THEN [inv[k] EXCEPT !.quantity = @ + delta]
        ELSE inv[k]]

InBounds(inv) ==
    \A k \in DOMAIN inv : inv[k].quantity \in (0 - MaxDebt)..MaxQuantity

NamesOf(inv) == {inv[k].name : k \in DOMAIN inv}

\* df[df['quantity'] <= df['min_stock']] of view_dashboard (ids of the rows)
DashboardLowStock(inv) ==
    {k \in DOMAIN inv : inv[k].quantity <= inv[k].min_stock}

\* SELECT * FROM inventory WHERE quantity < min_stock of view_shopping
ShoppingList(inv) ==
    {k \in DOMAIN inv : inv[k].quantity < inv[k].min_stock}

\* view_inventory, form "add": the quantity widget has no minimum
Add(name, qty) ==
    /\ Len(inventory) < MaxItems
    /\ inventory' = InsertItem(inventory, name, qty)
    /\ InBounds(inventory')
    /\ ev' = [op |-> "add", item |-> name, q |-> qty, outcome |-> "ok"]
    /\ UNCHANGED <<transactions, sessions, issued, now, users, roles, browser, script, net>>

\* view_stock_ops, form "in"
StockIn(name, typed) ==
    /\ inventory # <<>>
    /\ name \in NamesOf(inventory)
    /\ IF NumberInputAccepts(StockQtyMin, typed)
       THEN /\ inventory' = UpdateQuantity(inventory, name, typed)
            /\ InBounds(inventory')
            /\ ev' = [op |-> "stock_in", item |-> name, q |-> typed, outcome |-> "ok"]
       ELSE /\ inventory' = inventory
            /\ ev' = [op |-> "stock_in", item |-> name, q |-> typed, outcome |-> "rejected"]
    /\ UNCHANGED <<transactions, sessions, issued, now, users, roles, browser, script, net>>

\* view_stock_ops, form "out"
StockOut(name, typed) ==
    /\ inventory # <<>>
    /\ name \in NamesOf(inventory)
    /\ IF NumberInputAccepts(StockQtyMin, typed)
       THEN /\ inventory' = UpdateQuantity(inventory, name, -typed)
            /\ InBounds(inventory')
            /\ ev' = [op |-> "stock_out", item |-> name, q |-> typed, outcome |-> "ok"]
       ELSE /\ inventory' = inventory
            /\ ev' = [op |-> "stock_out", item |-> name, q |-> typed, outcome |-> "rejected"]
    /\ UNCHANGED <<transactions, sessions, issued, now, users, roles, browser, script, net>>

\* ------------------------------------------------------ init_db seed data

AllPages == {"Dashboard", "Inventory", "Stock Operations", "Reports",
             "Shopping List", "User Management", "Settings"}

SeedRoles ==
    {[name |-> "admin", permissions |-> AllPages],
     [name |-> "assistant",
      permissions |-> {"Dashboard", "Inventory", "Stock Operations", "Reports",
                       "Shopping List"}]}

SeedUsers ==
    {[id |-> 1, emp_id |-> "admin", name |-> "System Admin",
      password |-> "admin123", role |-> "admin", phone |-> NULL],
     [id |-> 2, emp_id |-> "assistant", name |-> "Lab Assistant",
      password |-> "123", role |-> "assistant", phone |-> NULL]}

Browsers == 1..MaxBrowsers

\* the sessions that use Stock Operations at the same time
StockSessions == 1..(MaxBrowsers + 1)

\* a session whose script is not showing Stock Operations
IdleScript == [pc |-> "idle", df |-> <<>>]

\* A browser that never loaded the app: st.session_state has no user and no
\* current_view, the URL carries no session_token.  user and token are sets
\* of at most one element, empty for None / absent.
NewBrowser == [user |-> {}, view |-> "unset", token |-> {}]

\* The state after init_db() ran on a new database.
Init ==
    /\ inventory = <<>>
    /\ transactions = <<>>
    /\ sessions = {}
    /\ issued = {}
    /\ now = 0
    /\ users = SeedUsers
    /\ roles = SeedRoles
    /\ browser = [b \in Browsers |-> NewBrowser]
    /\ script = [b \in StockSessions |-> IdleScript]
    /\ net = [n \in ItemNames |-> 0]
    /\ ev = [op |-> "init"]

NextLedger ==
    \/ \E name \in ItemNames, qty \in (0 - MaxBelowZero)..MaxQuantity : Add(name, qty)
    \/ \E name \in ItemNames, typed \in (0 - MaxBelowZero)..MaxTyped : StockIn(name, typed)
    \/ \E name \in ItemNames, typed \in (0 - MaxBelowZero)..MaxTyped : StockOut(name, typed)

SpecLedger == Init /\ [][NextLedger]_vars

\* ----------------------------------------------------------- ledger claims

IsStockStep == ev'.op \in {"stock_in", "stock_out"}

\* C1: a Stock Out of more than the on-hand quantity fails as insufficient
\* stock, leaves the item's quantity as it was and adds no transactions row.
C1_InsufficientStockNoEffect ==
    [][(ev'.op = "stock_out" /\ ev'.q > 0) =>
         \A k \in DOMAIN inventory :
            (inventory[k].name = ev'.item /\ ev'.q > inventory[k].quantity) =>
               /\ inventory'[k].quantity = inventory[k].quantity
               /\ transactions' = transactions
               /\ ev'.outcome = "insufficient"]_vars

\* C2: a Stock Out of 0 < q <= on-hand takes exactly q off the item and
\* appends one transactions row (out, q); a Stock In of q > 0 adds exactly q
\* and appends one row (in, q); no other item's quantity changes.
C2_ExactDeltaAndOneRow ==
    [][(IsStockStep /\ ev'.q > 0) =>
         \A k \in DOMAIN inventory :
            IF inventory[k].name = ev'.item
            THEN (ev'.op = "stock_in" \/ ev'.q <= inventory[k].quantity) =>
                   /\ inventory'[k].quantity =
                         inventory[k].quantity
                           + (IF ev'.op = "stock_in" THEN ev'.q ELSE 0 - ev'.q)
                   /\ Len(transactions') = Len(transactions) + 1
                   /\ transactions'[Len(transactions')].type =
                         (IF ev'.op = "stock_in" THEN "in" ELSE "out")
                   /\ transactions'[Len(transactions')].quantity = ev'.q
            ELSE inventory'[k].quantity = inventory[k].quantity]_vars

\* C3: every item's quantity is >= 0 in every reachable state.
C3_QuantityNeverNegative ==
    \A k \in DOMAIN inventory : inventory[k].quantity >= 0

\* C8: a Stock In or Stock Out submission with a quantity of zero or less is
\* rejected; every item's quantity and the transactions log stay as they were.
C8_NonPositiveRejected ==
    [][(IsStockStep /\ ev'.q <= 0) =>
         /\ ev'.outcome = "rejected"
         /\ inventory' = inventory
         /\ transactions' = transactions]_vars

C8_Witness ==
    /\ ev.op = "stock_out"
    /\ ev.q < 0
    /\ ev.outcome = "rejected"
    /\ \E k \in DOMAIN inventory :
          inventory[k].name = ev.item /\ inventory[k].quantity > 0

\* C9: the low-stock items are exactly the items with quantity <= min_stock
\* (ties included), and the dashboard alert and the shopping list both show
\* exactly that set.
C9_LowStockSameSet ==
    LET low == {k \in DOMAIN inventory :
                  inventory[k].quantity <= inventory[k].min_stock}
    IN  /\ DashboardLowStock(inventory) = low
        /\ ShoppingList(inventory) = low

\* ---------------------------------------------------------------- sessions

Tokens == 1..MaxTokens

\* str(uuid.uuid4()): a token no earlier call returned
FreshTokens == {tok \in Tokens : tok \notin issued}

\* INSERT INTO sessions (token, user_id, expires_at)
InsertSession(S, tok, user_id, expiry) ==
    S \cup {[token |-> tok, user_id |-> user_id, expires_at |-> expiry]}

\* DELETE FROM sessions WHERE expires_at < t
PurgeExpired(S, t) == {r \in S : ~(r.expires_at < t)}

\* variant: the query without its token condition
SelectAnyUnexpired(S, tok, t) == {r \in S : r.expires_at > t}

\* variant: the query with >= in place of >
SelectUnexpiredAtOrAfter(S, tok, t) == {r \in S : r.token = tok /\ r.expires_at >= t}

\* SELECT user_id FROM sessions WHERE token = tok AND expires_at > t
SelectValid(S, tok, t) == {r \in S : r.token = tok /\ r.expires_at > t}

\* UPDATE sessions SET expires_at = expiry WHERE token = tok
ExtendSession(S, tok, expiry) ==
    {IF r.token = tok THEN [r EXCEPT !.expires_at = expiry] ELSE r : r \in S}

\* DELETE FROM sessions WHERE token = tok
DeleteSession(S, tok) == {r \in S : r.token # tok}

\* SELECT * FROM users WHERE id = user_id
UserById(U, user_id) == {u \in U : u.id = user_id}

\* create_session(user_id); the token returned is ev'.token
CreateSession(user_id) ==
    \E tok \in FreshTokens :
        /\ sessions' = InsertSession(sessions, tok, user_id, now + SessionMinutes)
        /\ issued' = issued \cup {tok}
        /\ ev' = [op |-> "create", token |-> tok, user_id |-> user_id, t |-> now]
        /\ UNCHANGED <<inventory, transactions, now, users, roles, browser, script, net>>

\* validate_session(token) as a function of the tables and of the three
\* datetime.now() reads t1 <= t1 + d1 <= t1 + d1 + d2.  result is the set
\* holding the user returned, empty for None; t is the last clock read made.
validate_session(S, U, tok, t1, d1, d2) ==
    LET t2 == t1 + d1
        t3 == t2 + d2
        purged == PurgeExpired(S, t1)
        data == SelectValid(purged, tok, t2)
    IN  IF data # {}
        THEN [sessions |-> ExtendSession(purged, tok, t3 + SessionMinutes),
              tcheck |-> t2, t |-> t3,
              result |-> UNION {UserById(U, r.user_id) : r \in data}]
        ELSE [sessions |-> purged, tcheck |-> t2, t |-> t2, result |-> {}]

ValidateSession(tok) ==
    /\ UNCHANGED <<inventory, transactions, issued, users, roles, browser, script, net>>
    /\ \E d1 \in 0..MaxDrift, d2 \in 0..MaxDrift :
        LET out == validate_session(sessions, users, tok, now, d1, d2)
        IN  /\ out.t = now + d1 + d2
            /\ out.t <= MaxTime
            /\ sessions' = out.sessions
            /\ now' = out.t
            /\ ev' = [op |-> "validate", token |-> tok, after |-> ev.op,
                      tcheck |-> out.tcheck, t |-> out.t, result |-> out.result]

\* logout_user() with query_params holding tok: the session row is deleted
LogoutToken(tok) ==
    /\ tok \in issued
    /\ sessions' = DeleteSession(sessions, tok)
    /\ ev' = [op |-> "logout", token |-> tok]
    /\ UNCHANGED <<inventory, transactions, issued, now, users, roles, browser, script, net>>

\* a minute passes with no request
Tick ==
    /\ now < MaxTime
    /\ now' = now + 1
    /\ ev' = [op |-> "tick"]
    /\ UNCHANGED <<inventory, transactions, sessions, issued, users, roles, browser, script, net>>

NextSession ==
    \/ \E u \in users : CreateSession(u.id)
    \/ \E tok \in Tokens : ValidateSession(tok)
    \/ \E tok \in Tokens : LogoutToken(tok)
    \/ Tick

SpecSession == Init /\ [][NextSession]_vars

\* ------------------------------------------------------------------ main()

\* SELECT permissions FROM roles WHERE name = role_name; [] when no row
get_permissions(R, role_name) ==
    UNION {r.permissions : r \in {x \in R : x.name = role_name}}

\* variant: routing without the access control check
AllowedNoCheck(v, perms) == TRUE

\* the routing check: not (v != "My Profile" and v not in perms)
Allowed(v, perms) == v = "My Profile" \/ v \in perms

\* SELECT * FROM users WHERE emp_id = u AND password = p
Authenticate(U, emp_id, password) ==
    {u \in U : u.emp_id = emp_id /\ u.password = password}

TheUser(bs) == CHOOSE u \in bs.user : TRUE

\* variant: the permissions as they were when the app started (a cached copy)
PermsOfAtStart(bs, R) == get_permissions(SeedRoles, TheUser(bs).role)

\* perms = get_permissions(st.session_state.user['role']), read in every run
PermsOf(bs, R) == get_permissions(R, TheUser(bs).role)

\* Step 3 of main(): current_view defaults to "Dashboard", then routing.
\* Yields the browser state after the run and what was rendered: the page,
\* "denied" for the Access Denied message, "login" for the login screen.
RenderView(bs) ==
    IF bs.view = "unset" THEN "Dashboard" ELSE bs.view

Rendered(bs, R) ==
    IF bs.user = {} THEN "login"
    ELSE IF Allowed(RenderView(bs), PermsOf(bs, R))
         THEN RenderView(bs) ELSE "denied"

AfterRun(bs, R) ==
    IF bs.user = {} THEN bs ELSE [bs EXCEPT !.view = RenderView(bs)]

\* The browser loads the app's URL: a new st.session_state, the query
\* parameters kept.  main() restores the user from the token or drops it.
Reload(b, d1, d2) ==
    /\ UNCHANGED <<inventory, transactions, issued, users, roles, script, net>>
    /\ IF browser[b].token = {}
       THEN /\ d1 = 0 /\ d2 = 0
            /\ browser' = [browser EXCEPT ![b] = NewBrowser]
            /\ ev' = [op |-> "reload", b |-> b, served |-> "login"]
            /\ UNCHANGED <<sessions, now>>
       ELSE \E tok \in browser[b].token :
              LET out == validate_session(sessions, users, tok, now, d1, d2)
                  bs == IF out.result # {}
                        THEN [user |-> out.result, view |-> "unset", token |-> {tok}]
                        ELSE NewBrowser
              IN  /\ out.t = now + d1 + d2
                  /\ out.t <= MaxTime
                  /\ sessions' = out.sessions
                  /\ now' = out.t
                  /\ browser' = [browser EXCEPT ![b] = AfterRun(bs, roles)]
                  /\ ev' = [op |-> "reload", b |-> b, served |-> Rendered(bs, roles)]

\* Any interaction that reruns the script while st.session_state holds a
\* user: the session check is skipped, the page is routed again.
Rerun(b) ==
    /\ browser[b].user # {}
    /\ browser' = [browser EXCEPT ![b] = AfterRun(@, roles)]
    /\ ev' = [op |-> "rerun", b |-> b, served |-> Rendered(browser[b], roles)]
    /\ UNCHANGED <<inventory, transactions, sessions, issued, now, users, roles,
                 script, net>>

\* The login form is submitted (it is shown only while no user is set).
Login(b, emp_id, password) ==
    /\ browser[b].user = {}
    /\ browser[b].token = {}
    /\ UNCHANGED <<inventory, transactions, now, users, roles, script, net>>
    /\ LET user_data == Authenticate(users, emp_id, password)
       IN  IF user_data # {}
           THEN \E tok \in FreshTokens, u \in user_data :
                  LET bs == [browser[b] EXCEPT !.user = {u}, !.token = {tok}]
                  IN  /\ sessions' = InsertSession(sessions, tok, u.id,
                                                   now + SessionMinutes)
                      /\ issued' = issued \cup {tok}
                      /\ browser' = [browser EXCEPT ![b] = AfterRun(bs, roles)]
                      /\ ev' = [op |-> "login", b |-> b, outcome |-> "ok",
                                served |-> Rendered(bs, roles)]
           ELSE /\ ev' = [op |-> "login", b |-> b, outcome |-> "invalid",
                          served |-> "login"]
                /\ UNCHANGED <<sessions, issued, browser>>

\* A sidebar button: "My Profile" always, a page only when in perms.
Nav(b, page) ==
    /\ browser[b].user # {}
    /\ page = "My Profile" \/ page \in PermsOf(browser[b], roles)
    /\ LET bs == [browser[b] EXCEPT !.view = page]
       IN  /\ browser' = [browser EXCEPT ![b] = bs]
           /\ ev' = [op |-> "nav", b |-> b, served |-> Rendered(bs, roles)]
    /\ UNCHANGED <<inventory, transactions, sessions, issued, now, users, roles,
                 script, net>>

\* The sidebar's Logout button: logout_user(), then the login screen
Logout(b) ==
    /\ browser[b].user # {}
    /\ sessions' = IF browser[b].token = {} THEN sessions
                   ELSE DeleteSession(sessions, CHOOSE tok \in browser[b].token : TRUE)
    /\ browser' = [browser EXCEPT ![b] = [@ EXCEPT !.user = {}, !.token = {}]]
    /\ ev' = [op |-> "logout_user", b |-> b, served |-> "login"]
    /\ UNCHANGED <<inventory, transactions, issued, now, users, roles, script, net>>

\* ------------------------------------------- view_user_management, view_profile

\* A form of page is on screen only in a run that routes to page.
FormShown(b, page) ==
    /\ browser[b].user # {}
    /\ browser[b].view = page
    /\ Allowed(page, PermsOf(browser[b], roles))

RoleNames(R) == {r.name : r \in R}

\* UPDATE roles SET permissions = new_perms WHERE name = role_name
UpdateRole(R, role_name, new_perms) ==
    {IF r.name = role_name THEN [r EXCEPT !.permissions = new_perms] ELSE r : r \in R}

\* form edit_role_<name>, "Save Permissions"
SavePermissions(b, role_name, new_perms) ==
    /\ FormShown(b, "User Management")
    /\ role_name \in RoleNames(roles)
    /\ roles' = UpdateRole(roles, role_name, new_perms)
    /\ browser' = browser
    /\ ev' = [op |-> "save_permissions", b |-> b, role |-> role_name,
              served |-> Rendered(browser[b], roles')]
    /\ UNCHANGED <<inventory, transactions, sessions, issued, now, users, script, net>>

\* variant: the statement always setting password=?
AdminUpdateAlwaysPassword(U, sel, e_name, e_role, e_phone, e_pass) ==
    {IF u.emp_id = sel
     THEN [u EXCEPT !.name = e_name, !.role = e_role, !.phone = e_phone,
                    !.password = e_pass]
     ELSE u : u \in U}

\* UPDATE users SET name=?, role=?, phone=? [, password=?] WHERE emp_id=?
\* (the password is set only when the field was filled in)
AdminUpdate(U, sel, e_name, e_role, e_phone, e_pass) ==
    {IF u.emp_id = sel
     THEN [u EXCEPT !.name = e_name, !.role = e_role, !.phone = e_phone,
                    !.password = IF e_pass # "" THEN e_pass ELSE @]
     ELSE u : u \in U}

\* form edit_other_user, "Update User"; the selectbox offers the emp_ids and
\* an empty choice shows no form.
EditUser(b, sel, e_name, e_role, e_phone, e_pass) ==
    /\ FormShown(b, "User Management")
    /\ sel \in {u.emp_id : u \in users}
    /\ sel # ""
    /\ e_role \in RoleNames(roles)
    /\ users' = AdminUpdate(users, sel, e_name, e_role, e_phone, e_pass)
    /\ browser' = browser
    /\ ev' = [op |-> "edit_user", b |-> b, pass |-> e_pass,
              target |-> {u.id : u \in {x \in users : x.emp_id = sel}},
              served |-> Rendered(browser[b], roles)]
    /\ UNCHANGED <<inventory, transactions, sessions, issued, now, roles, script, net>>

\* UPDATE users SET name = ? [, password = ?] WHERE id = ?
SelfUpdate(U, id, n, p) ==
    {IF u.id = id
     THEN [u EXCEPT !.name = n, !.password = IF p # "" THEN p ELSE @]
     ELSE u : u \in U}

\* view_profile, form self_edit, "Save"; st.session_state.user is not
\* refreshed afterwards.
SelfEdit(b, n, p) ==
    /\ FormShown(b, "My Profile")
    /\ users' = SelfUpdate(users, TheUser(browser[b]).id, n, p)
    /\ browser' = browser
    /\ ev' = [op |-> "self_edit", b |-> b, pass |-> p,
              target |-> {TheUser(browser[b]).id},
              served |-> Rendered(browser[b], roles)]
    /\ UNCHANGED <<inventory, transactions, sessions, issued, now, roles, script, net>>

\* ------------------------------------------------------------ specifications

Pages == AllPages \cup {"My Profile"}

\* what is typed into the forms
EmpIdInputs == {"admin", "assistant", "tech"}
PasswordInputs == {"admin123", "123", ""}
NewPasswordInputs == {"", "123"}
NameInputs == {"R. Doe"}
PhoneInputs == {""}
PermInputs == {AllPages, {"Dashboard", "User Management"}, {"Dashboard"}}

\* main() over time: a session is created, restored, left idle and closed
NextMain ==
    \/ \E b \in Browsers, d1 \in 0..MaxDrift, d2 \in 0..MaxDrift : Reload(b, d1, d2)
    \/ \E b \in Browsers : Rerun(b)
    \/ \E b \in Browsers, e \in EmpIdInputs, p \in PasswordInputs : Login(b, e, p)
    \/ \E b \in Browsers, page \in Pages : Nav(b, page)
    \/ \E b \in Browsers : Logout(b)
    \/ Tick

SpecMain == Init /\ [][NextMain]_vars

\* the access gate with several browsers and the role table being edited;
\* requests take no time
NextGate ==
    \/ \E b \in Browsers : Reload(b, 0, 0)
    \/ \E b \in Browsers : Rerun(b)
    \/ \E b \in Browsers, e \in EmpIdInputs, p \in PasswordInputs : Login(b, e, p)
    \/ \E b \in Browsers, page \in Pages : Nav(b, page)
    \/ \E b \in Browsers : Logout(b)
    \/ \E b \in Browsers, r \in RoleNames(roles), perms \in PermInputs :
          SavePermissions(b, r, perms)

SpecGate == Init /\ [][NextGate]_vars

\* the credential store: logins and the user forms; requests take no time
NextUsers ==
    \/ \E b \in Browsers, e \in EmpIdInputs, p \in PasswordInputs : Login(b, e, p)
    \/ \E b \in Browsers, page \in {"User Management", "My Profile"} : Nav(b, page)
    \/ \E b \in Browsers : Logout(b)
    \/ \E b \in Browsers, e \in EmpIdInputs, n \in NameInputs, r \in RoleNames(roles),
          ph \in PhoneInputs, p \in NewPasswordInputs : EditUser(b, e, n, r, ph, p)
    \/ \E b \in Browsers, n \in NameInputs, p \in NewPasswordInputs : SelfEdit(b, n, p)

SpecUsers == Init /\ [][NextUsers]_vars

\* role edits seen by users who are already logged in: the browser of the
\* admin who edits and MaxBrowsers further browsers; requests take no time
RoleBrowsers == 1..(MaxBrowsers + 1)

\* the pages visited here: one the seed assistant may see, one it may not,
\* and the page no role needs
RolePages == {"Inventory", "User Management", "My Profile"}

InitRoles ==
    /\ inventory = <<>>
    /\ transactions = <<>>
    /\ sessions = {}
    /\ issued = {}
    /\ now = 0
    /\ users = SeedUsers
    /\ roles = SeedRoles
    /\ browser = [b \in RoleBrowsers |-> NewBrowser]
    /\ script = [b \in StockSessions |-> IdleScript]
    /\ net = [n \in ItemNames |-> 0]
    /\ ev = [op |-> "init"]

NextRoles ==
    \/ \E b \in RoleBrowsers, e \in EmpIdInputs, p \in PasswordInputs : Login(b, e, p)
    \/ \E b \in RoleBrowsers : Rerun(b)
    \/ \E b \in RoleBrowsers, page \in RolePages : Nav(b, page)
    \/ \E b \in RoleBrowsers, r \in RoleNames(roles), perms \in PermInputs :
          SavePermissions(b, r, perms)

SpecRoles == InitRoles /\ [][NextRoles]_vars

\* ------------------------------------------- Stock Operations, several sessions

\* Streamlit runs each session's script in its own thread; every run_query
\* opens its own connection, executes one statement and commits, and SQLite
\* runs one writing statement at a time.  So a step is one script run.

\* variant: the new quantity computed from the data frame the form was built
\* from (read, then write)
StockStatementFromSnapshot(inv, df, name, delta) ==
    [k \in DOMAIN inv |->
        IF inv[k].name = name /\ k \in DOMAIN df
        THEN [inv[k] EXCEPT !.quantity = df[k].quantity + delta]
        ELSE inv[k]]

\* The statement a stock form runs, in a script whose data frame is df:
\* UPDATE inventory SET quantity = quantity +/- ? WHERE name = ?
StockStatement(inv, df, name, delta) == UpdateQuantity(inv, name, delta)

\* the quantities df shows for the item
Shown(df, name) == {df[k].quantity : k \in {j \in DOMAIN df : df[j].name = name}}

\* view_stock_ops is routed to: df = SELECT * FROM inventory, then the forms
OpenStockOps(b) ==
    /\ script[b].pc = "idle"
    /\ inventory # <<>>
    /\ script' = [script EXCEPT ![b] = [pc |-> "form", df |-> inventory]]
    /\ ev' = [op |-> "open_stock_ops", b |-> b]
    /\ UNCHANGED <<inventory, transactions, sessions, issued, now, users, roles,
                   browser, net>>

\* form "in" (dir = "in") or "out" submitted in session b, then st.rerun():
\* the script runs again and reads df anew
SubmitStock(b, dir, name, typed) ==
    /\ script[b].pc = "form"
    /\ name \in NamesOf(script[b].df)
    /\ LET delta == IF dir = "in" THEN typed ELSE 0 - typed
       IN  IF NumberInputAccepts(StockQtyMin, typed)
           THEN /\ inventory' = StockStatement(inventory, script[b].df, name, delta)
                /\ InBounds(inventory')
                /\ net' = [net EXCEPT ![name] = @ + delta]
                /\ ev' = [op |-> "submit_stock", b |-> b, dir |-> dir, item |-> name,
                          q |-> typed, outcome |-> "ok",
                          shown |-> Shown(script[b].df, name)]
           ELSE /\ UNCHANGED <<inventory, net>>
                /\ ev' = [op |-> "submit_stock", b |-> b, dir |-> dir, item |-> name,
                          q |-> typed, outcome |-> "rejected",
                          shown |-> Shown(script[b].df, name)]
    /\ script' = [script EXCEPT ![b] = [pc |-> "form", df |-> inventory']]
    /\ UNCHANGED <<transactions, sessions, issued, now, users, roles, browser>>

\* The database after one item was added with InitialQuantity.
InitStock ==
    /\ inventory = InsertItem(<<>>, "servo", InitialQuantity)
    /\ transactions = <<>>
    /\ sessions = {}
    /\ issued = {}
    /\ now = 0
    /\ users = SeedUsers
    /\ roles = SeedRoles
    /\ browser = [b \in Browsers |-> NewBrowser]
    /\ script = [b \in StockSessions |-> IdleScript]
    /\ net = [n \in ItemNames |-> 0]
    /\ ev = [op |-> "init"]

NextStock ==
    \/ \E b \in StockSessions : OpenStockOps(b)
    \/ \E b \in StockSessions, dir \in {"in", "out"}, name \in ItemNames,
          typed \in (0 - MaxBelowZero)..MaxTyped : SubmitStock(b, dir, name, typed)

SpecStock == InitStock /\ [][NextStock]_vars

\* ---------------------------------------------------------- session claims

RowsOf(S, tok) == {r \in S : r.token = tok}

\* C4: validate_session on a token right after create_session issued it
\* returns the user the session was created for; on a token never issued, or
\* one whose session logout deleted (the row is gone and never comes back),
\* it returns none, whatever other sessions are stored.
C4_CreateValidateLogout ==
    [][/\ (ev'.op = "validate" /\ ev.op = "create" /\ ev'.token = ev.token) =>
            ev'.result = {u \in users : u.id = ev.user_id}
       /\ (ev'.op = "validate" /\ RowsOf(sessions, ev'.token) = {}) =>
            ev'.result = {}
       /\ (ev'.op = "validate" /\ ev'.token \notin issued) =>
            RowsOf(sessions, ev'.token) = {}
       /\ ev'.op = "logout" => RowsOf(sessions', ev'.token) = {}
       /\ \A tok \in issued :
            RowsOf(sessions, tok) = {} => RowsOf(sessions', tok) = {}]_vars

C4_Witness ==
    /\ ev.op = "validate"
    /\ ev.after = "create"
    /\ ev.result # {}
    /\ \E r \in sessions : r.token # ev.token /\ r.user_id \notin {u.id : u \in ev.result}

\* C5: the expiry slides by SessionMinutes: a successful validate at time t
\* leaves the session expiring at t + 5 and no other stored session changed
\* (create likewise starts it at t + 5); a validate at or after a session's
\* expiry, so 5 minutes or more after its last create or successful validate,
\* returns none, and the clock never runs back, so it stays that way.
C5_SlidingWindow ==
    [][/\ (ev'.op = "validate" /\ ev'.result # {}) =>
            \E r \in sessions' :
               r.token = ev'.token /\ r.expires_at = ev'.t + SessionMinutes
       /\ \A r \in sessions' :
            \/ r \in sessions
            \/ /\ r.token = ev'.token
               /\ r.expires_at = ev'.t + SessionMinutes
               /\ \/ ev'.op = "create"
                  \/ ev'.op = "validate" /\ ev'.result # {}
       /\ (ev'.op = "validate"
             /\ \A r \in RowsOf(sessions, ev'.token) : ev'.tcheck >= r.expires_at) =>
            /\ ev'.result = {}
            /\ \A r \in RowsOf(sessions', ev'.token) : r \in sessions
       /\ now' >= now]_vars

C5_Witness ==
    /\ ev.op = "validate"
    /\ ev.result = {}
    /\ \E r \in sessions : r.token = ev.token /\ r.expires_at = ev.tcheck
    /\ \E r \in sessions : r.token # ev.token /\ r.expires_at > now

\* ------------------------------------------------------------- main() claims

\* the requests that end in a run of main(), ev.served telling what it rendered
ServedOps == {"reload", "rerun", "login", "nav", "logout_user",
              "save_permissions", "edit_user", "self_edit"}

\* C6: the page a request renders is "My Profile" or a page in the
\* permissions now stored for the role of the logged-in user (the user held
\* in st.session_state); "My Profile" is rendered whatever the role, also for
\* a role with no row; with the seed roles an assistant is never shown
\* "User Management" or "Settings", whatever current_view holds.
C6_GateRendersOnlyPermitted ==
    /\ (ev.op \in ServedOps /\ ev.served \notin {"login", "denied"}) =>
          /\ browser[ev.b].user # {}
          /\ \/ ev.served = "My Profile"
             \/ ev.served \in get_permissions(roles, TheUser(browser[ev.b]).role)
    /\ (ev.op \in ServedOps /\ browser[ev.b].user # {}
          /\ browser[ev.b].view = "My Profile") => ev.served = "My Profile"
    /\ \A r \in RoleNames(roles) \cup {"no_such_role"} :
          Allowed("My Profile", get_permissions(roles, r))
    /\ (ev.op \in ServedOps /\ browser[ev.b].user # {} /\ roles = SeedRoles
          /\ TheUser(browser[ev.b]).role = "assistant") =>
          ev.served \notin {"User Management", "Settings"}

C6_Witness ==
    /\ ev.op = "login"
    /\ ev.served = "denied"
    /\ browser[ev.b].view = "User Management"
    /\ TheUser(browser[ev.b]).role = "assistant"
    /\ roles = SeedRoles

\* C7: a request that reaches the access gate or a page is served for a user
\* resolved from a session that is valid at that moment: the browser's token
\* has a session row of that user that has not expired.
C7_ServedOnlyWithValidSession ==
    [][(ev'.op \in ServedOps /\ ev'.served # "login") =>
         \E r \in sessions' :
            /\ r.token \in browser'[ev'.b].token
            /\ r.user_id = TheUser(browser'[ev'.b]).id
            /\ r.expires_at > now']_vars

\* C10: an admin edit or a profile edit changes only the selected user's row,
\* and with the password field left blank that row keeps its password, so the
\* user's earlier (emp_id, password) pair still authenticates as that user.
C10_UpdateKeepsSecretAndOthers ==
    [][ev'.op \in {"edit_user", "self_edit"} =>
         /\ \A u \in users : u.id \notin ev'.target => u \in users'
         /\ {u.id : u \in users'} = {u.id : u \in users}
         /\ Cardinality(users') = Cardinality(users)
         /\ ev'.pass = "" =>
               \A u \in users : u.id \in ev'.target =>
                  \E v \in users' :
                     /\ v.id = u.id
                     /\ v.password = u.password
                     /\ Authenticate(users', u.emp_id, u.password) = {v}]_vars

C10_Witness ==
    /\ ev.op = "edit_user"
    /\ ev.pass = ""
    /\ \E u \in users :
          /\ u.id \in ev.target
          /\ u.emp_id = "assistant"
          /\ u.name = "R. Doe"
          /\ u.role = "admin"
          /\ Authenticate(users, "assistant", "123") = {u}
    /\ \E u \in users : u.id \notin ev.target /\ u \in SeedUsers

\* C11: role edits take effect at once: whatever a request renders for a
\* logged-in user is decided by the permissions stored for the user's role
\* when that request runs, so after Save Permissions the next request of
\* every logged-in user of the role is denied a page that was removed and
\* given a page that was added.
C11_RoleEditsImmediate ==
    [][(ev'.op \in ServedOps /\ browser'[ev'.b].user # {}) =>
         LET bs == browser'[ev'.b]
             perms == get_permissions(roles', TheUser(bs).role)
         IN  ev'.served =
               IF bs.view = "My Profile" \/ bs.view \in perms
               THEN bs.view ELSE "denied"]_vars

C11_Witness ==
    /\ ev.op = "rerun"
    /\ ev.served = "denied"
    /\ browser[ev.b].view = "Inventory"
    /\ TheUser(browser[ev.b]).role = "assistant"
    /\ \E b \in DOMAIN browser :
          /\ b # ev.b
          /\ browser[b].user # {}
          /\ TheUser(browser[b]).role = "admin"
          /\ browser[b].view = "User Management"

\* C12: a stock form applies its amount to the stored quantity in one
\* statement, so with several sessions submitting in any order no update is
\* lost: every item's quantity is its initial quantity plus all amounts
\* stocked in minus all amounts stocked out.
C12_NoLostUpdate ==
    \A k \in DOMAIN inventory :
        inventory[k].quantity = InitialQuantity + net[inventory[k].name]

C12_Witness ==
    /\ ev.op = "submit_stock"
    /\ ev.outcome = "ok"
    /\ ev.dir = "out"
    /\ \E k \in DOMAIN inventory :
          /\ inventory[k].name = ev.item
          /\ ev.shown # {inventory[k].quantity + ev.q}
          /\ net[ev.item] > 0 - ev.q
    /\ \A b \in DOMAIN script : script[b].pc = "form"

====
